---- MODULE Spec2Model ----
(***************************************************************************)
(* Day 17 of abestel/aoc23: Grid::shortest_path, a uniform-cost search     *)
(* over the expanded state graph (coords, direction, steps) of a grid of   *)
(* digit costs, with a minimum and a maximum run length (src/src/day17.rs).*)
(***************************************************************************)
EXTENDS Integers, Sequences, FiniteSets, Bags, TLC

VARIABLES
    points,     \* Grid.points: rows of digit costs, points[y + 1][x + 1]
    start,      \* argument start: (x, y)
    end,        \* argument end: (x, y)
    min_step,   \* argument min_step: u8
    max_step,   \* argument max_step: u8
    order,      \* the order in which adjacent enumerates the four directions
    distances,  \* HashMap<Key, u32>: the best cost recorded for each Key
    heap,       \* BinaryHeap<State>: the frontier, a bag of State records
    state,      \* the State bound by the last heap.pop() (NoState before it)
    via,        \* history: for every State pushed so far, the State it was
                \* expanded from and the cells entered on the way to it
    pc,         \* "call" at entry, "loop" in the while loop, "done" on return
    result,     \* the returned Option<u32>: None or Some(c)
    prev        \* the other call on this Grid: the arguments and result of
                \* the call before this one, or the arguments and locals of
                \* a call that runs beside it

vars == <<points, start, end, min_step, max_step, order, distances, heap,
          state, via, pc, result, prev>>

----------------------------------------------------------------------------
(* Bounds of the model.                                                    *)

MaxCells == 6
NumGrids == 8
MaxStep == 2

(* Widths and ranges of the program's own types.                           *)

U8Mod == 256
DigitBase == 10

----------------------------------------------------------------------------
(* Values.                                                                 *)

None == <<>>
Some(c) == <<c>>

NoState == [cost |-> 0, coords |-> <<0, 0>>, direction |-> "None", steps |-> 0]
NoCall == [made |-> FALSE]

Directions == {"Up", "Down", "Left", "Right"}

(* The array literal of adjacent.                                          *)
AllDirections == <<"Up", "Down", "Left", "Right">>

(* The array literal of the initialisation loop.                           *)
SeedDirections == <<"Down", "Right">>

opposite(d) ==
    CASE d = "Up" -> "Down"
      [] d = "Down" -> "Up"
      [] d = "Left" -> "Right"
      [] d = "Right" -> "Left"

next(d, coords) ==
    LET x == coords[1]
        y == coords[2]
    IN  CASE d = "Up" -> <<x, y - 1>>
          [] d = "Down" -> <<x, y + 1>>
          [] d = "Left" -> <<x - 1, y>>
          [] d = "Right" -> <<x + 1, y>>

(* impl From<State> for Key.                                               *)
Key(s) == [coords |-> s.coords, direction |-> s.direction, steps |-> s.steps]

(* cmp as self.cost.cmp(&other.cost): the greatest cost first.             *)
cmpForward(self, other) ==
    IF self.cost < other.cost THEN -1
    ELSE IF self.cost = other.cost THEN 0
    ELSE 1

(* cmp on the wrong field: other.steps.cmp(&self.steps).                   *)
cmpSteps(self, other) ==
    IF other.steps < self.steps THEN -1
    ELSE IF other.steps = self.steps THEN 0
    ELSE 1

(* impl Ord for State: other.cost.cmp(&self.cost), as -1, 0 or 1.          *)
cmp(self, other) ==
    IF other.cost < self.cost THEN -1
    ELSE IF other.cost = self.cost THEN 0
    ELSE 1

----------------------------------------------------------------------------
(* Grid.                                                                   *)

(* A digit for cell (x, y) of the g-th input grid.                         *)
Digit(g, x, y) ==
    ((g + 1) * (3 * x + 5 * y + 1) + g * x * y + ((g * g) \div 2)
        + 7 * x * x * y) % DigitBase

InputGrid(g, w, h) == [y \in 1..h |-> [x \in 1..w |-> Digit(g, x - 1, y - 1)]]

Width == IF Len(points) = 0 THEN 0 ELSE Len(points[1])
Height == Len(points)

(* contains with `<=` for the first `<`: the column past the last one is  *)
(* taken for a column of the grid.                                         *)
containsWide(coords) ==
    /\ 0 <= coords[1]
    /\ coords[1] <= Width
    /\ 0 <= coords[2]
    /\ coords[2] < Height

contains(coords) ==
    /\ 0 <= coords[1]
    /\ coords[1] < Width
    /\ 0 <= coords[2]
    /\ coords[2] < Height

(* self.points[y as usize][x as usize]                                     *)
Cell(coords) == points[coords[2] + 1][coords[1] + 1]

Positions == {<<x, y>> : x \in 0..(Width - 1), y \in 0..(Height - 1)}

(* direction.next(coords) for each direction, in the order of enumeration. *)
Moves(coords) == [i \in 1..Len(order) |-> <<order[i], next(order[i], coords)>>]

(* adjacent without the test `*direction == coming_from.opposite()`.       *)
adjacentWithReversal(coords, coming_from) ==
    LET Keep(a) == contains(a[2])
    IN  SelectSeq(Moves(coords), Keep)

adjacent(coords, coming_from) ==
    LET Keep(a) == a[1] # opposite(coming_from) /\ contains(a[2])
    IN  SelectSeq(Moves(coords), Keep)

----------------------------------------------------------------------------
(* shortest_path.                                                          *)

(* A seed that is charged the cost of the start cell.                      *)
SeedCharged(direction) ==
    [cost |-> Cell(start), coords |-> start, direction |-> direction,
     steps |-> 0]

Seed(direction) ==
    [cost |-> 0, coords |-> start, direction |-> direction, steps |-> 0]

Seeds == {Seed(SeedDirections[i]) : i \in 1..Len(SeedDirections)}

(* The State built for one element of adjacent. The u32 cost is an         *)
(* unbounded integer here: the sums of the model stay far below 2^32.      *)
NextState(st, a) ==
    [cost |-> st.cost + Cell(a[2]),
     coords |-> a[2],
     direction |-> a[1],
     steps |-> IF a[1] = st.direction THEN (st.steps + 1) % U8Mod ELSE 1]

(* Known with `<` for `<=`: an entry of equal cost does not stop a push.   *)
KnownStrict(dist, n) == Key(n) \in DOMAIN dist /\ dist[Key(n)] < n.cost

(* Known without its test: no recorded cost stops a push.                  *)
KnownNever(dist, n) == FALSE

Known(dist, n) == Key(n) \in DOMAIN dist /\ dist[Key(n)] <= n.cost

(* Rejected without its third test: a turn is accepted after any run.      *)
RejectedNoMin(dist, st, n) ==
    \/ n.steps > max_step
    \/ Known(dist, n)

(* Rejected without its first test: a run of any length is accepted.       *)
RejectedNoMax(dist, st, n) ==
    \/ Known(dist, n)
    \/ (n.direction # st.direction /\ st.steps < min_step)

(* Rejected with the first comparison turned round.                        *)
RejectedMaxFlipped(dist, st, n) ==
    \/ n.steps < max_step
    \/ Known(dist, n)
    \/ (n.direction # st.direction /\ st.steps < min_step)

(* Rejected with the last comparison turned round.                         *)
RejectedMinFlipped(dist, st, n) ==
    \/ n.steps > max_step
    \/ Known(dist, n)
    \/ (n.direction # st.direction /\ st.steps >= min_step)

(* The condition of the `continue` inside the for loop.                    *)
Rejected(dist, st, n) ==
    \/ n.steps > max_step
    \/ Known(dist, n)
    \/ (n.direction # st.direction /\ st.steps < min_step)

Put(f, k, v) == (k :> v) @@ f

(* The for loop over adjacent, from its i-th element on; acc holds the     *)
(* map, the frontier and the history as the loop updates them.             *)
RECURSIVE Visit(_, _, _, _)
Visit(adj, i, st, acc) ==
    IF i > Len(adj) THEN acc
    ELSE LET n == NextState(st, adj[i])
         IN  IF Rejected(acc.distances, st, n)
             THEN Visit(adj, i + 1, st, acc)
             ELSE Visit(adj, i + 1, st,
                    [distances |-> Put(acc.distances, Key(n), n.cost),
                     heap |-> acc.heap (+) SetToBag({n}),
                     via |-> Put(acc.via, n,
                               [from |-> st,
                                path |-> Append(acc.via[st].path, n.coords)])])

(* heap.pop() may return s: no entry of the heap is greater than s.        *)
Top(s) ==
    /\ BagIn(s, heap)
    /\ \A t \in BagToSet(heap) : cmp(t, s) <= 0

(* The final test without `steps >= min_step`.                             *)
AtEndAnyRun(s) == s.coords = end

AtEnd(s) == s.coords = end /\ s.steps >= min_step

Stale(s) == Key(s) \in DOMAIN distances /\ distances[Key(s)] < s.cost

(* Lines 46-60: the two seeds enter the map and the frontier.              *)
Initialize ==
    /\ pc = "call"
    /\ distances' = [k \in {Key(s) : s \in Seeds} |->
                        (CHOOSE s \in Seeds : Key(s) = k).cost]
    /\ heap' = SetToBag(Seeds)
    /\ via' = [s \in Seeds |-> [from |-> NoState, path |-> <<>>]]
    /\ pc' = "loop"
    /\ UNCHANGED <<points, start, end, min_step, max_step, order, state,
                   result, prev>>

(* Lines 62-74: the popped state is at end with a long enough run.         *)
PopReturn ==
    /\ pc = "loop"
    /\ \E s \in BagToSet(heap) :
        /\ Top(s)
        /\ AtEnd(s)
        /\ state' = s
        /\ heap' = heap (-) SetToBag({s})
        /\ result' = Some(s.cost)
        /\ pc' = "done"
    /\ UNCHANGED <<points, start, end, min_step, max_step, order, distances,
                   via, prev>>

(* The loop body with heap.peek() for heap.pop(): the entry stays in the   *)
(* frontier.                                                               *)
PopVisitPeek ==
    /\ pc = "loop"
    /\ \E s \in BagToSet(heap) :
        /\ Top(s)
        /\ ~AtEnd(s)
        /\ LET kept == [distances |-> distances, heap |-> heap, via |-> via]
               acc == IF Stale(s) THEN kept
                      ELSE Visit(adjacent(s.coords, s.direction), 1, s, kept)
           IN  /\ state' = s
               /\ distances' = acc.distances
               /\ heap' = acc.heap
               /\ via' = acc.via
    /\ UNCHANGED <<points, start, end, min_step, max_step, order, pc, result,
                   prev>>

(* Lines 62-113: the popped state is not a final one. It is dropped when   *)
(* the map holds a cheaper entry for its key (lines 77-82), and expanded   *)
(* by the for loop otherwise (lines 84-112).                               *)
PopVisit ==
    /\ pc = "loop"
    /\ \E s \in BagToSet(heap) :
        /\ Top(s)
        /\ ~AtEnd(s)
        /\ LET popped == [distances |-> distances,
                          heap |-> heap (-) SetToBag({s}),
                          via |-> via]
               acc == IF Stale(s) THEN popped
                      ELSE Visit(adjacent(s.coords, s.direction), 1, s, popped)
           IN  /\ state' = s
               /\ distances' = acc.distances
               /\ heap' = acc.heap
               /\ via' = acc.via
    /\ UNCHANGED <<points, start, end, min_step, max_step, order, pc, result,
                   prev>>

(* Lines 62 and 115: heap.pop() is None.                                   *)
Exhausted ==
    /\ pc = "loop"
    /\ heap = EmptyBag
    /\ result' = None
    /\ pc' = "done"
    /\ UNCHANGED <<points, start, end, min_step, max_step, order, distances,
                   heap, state, via, prev>>

StepPairs == {<<lo, hi>> \in (1..MaxStep) \X (1..MaxStep) : lo <= hi}

Entry ==
    /\ distances = <<>>
    /\ heap = EmptyBag
    /\ state = NoState
    /\ via = <<>>
    /\ pc = "call"
    /\ result = None

Init ==
    /\ \E g \in 0..(NumGrids - 1), w \in 1..MaxCells, h \in 1..MaxCells :
        /\ w * h <= MaxCells
        /\ points = InputGrid(g, w, h)
    /\ start \in Positions
    /\ end \in Positions
    /\ \E p \in StepPairs : min_step = p[1] /\ max_step = p[2]
    /\ order = AllDirections
    /\ prev = NoCall
    /\ Entry

Next == Initialize \/ PopReturn \/ PopVisit \/ Exhausted

Spec == Init /\ [][Next]_vars

(* The loop runs on: a call that can take a step takes one (the function   *)
(* is synchronous and is not suspended). The searches start at (0, 0), the *)
(* start that `first` and `second` pass, and end anywhere.                 *)
InitFair == Init /\ start = <<0, 0>>

SpecFair == InitFair /\ [][Next]_vars /\ WF_vars(Next)

----------------------------------------------------------------------------
(* A second call of shortest_path on the same Grid, after the first has    *)
(* returned: prev keeps the arguments and the result of the first. Each    *)
(* call builds its own map and frontier (lines 46-47).                     *)

Returned ==
    [made |-> TRUE, start |-> start, end |-> end, min_step |-> min_step,
     max_step |-> max_step, order |-> order, result |-> result]

(* A new call that finds the map of the call before it.                    *)
ReenterKeepMap ==
    /\ distances' = distances
    /\ heap' = EmptyBag
    /\ state' = NoState
    /\ via' = <<>>
    /\ pc' = "call"
    /\ result' = None

Reenter ==
    /\ distances' = <<>>
    /\ heap' = EmptyBag
    /\ state' = NoState
    /\ via' = <<>>
    /\ pc' = "call"
    /\ result' = None

(* The same start and end, with any min_step <= max_step.                  *)
CallAgain ==
    /\ pc = "done"
    /\ prev = NoCall
    /\ prev' = Returned
    /\ \E p \in StepPairs : min_step' = p[1] /\ max_step' = p[2]
    /\ Reenter
    /\ UNCHANGED <<points, start, end, order>>

(* Orders in which the four directions may be enumerated: the order of     *)
(* the source, its rotations and its reverse.                              *)
DirectionOrders ==
    {<<"Up", "Down", "Left", "Right">>, <<"Down", "Left", "Right", "Up">>,
     <<"Left", "Right", "Up", "Down">>, <<"Right", "Up", "Down", "Left">>,
     <<"Right", "Left", "Down", "Up">>}

(* The same arguments, with the directions enumerated in any of the orders.*)
CallSame ==
    /\ pc = "done"
    /\ prev = NoCall
    /\ prev' = Returned
    /\ order' \in DirectionOrders
    /\ Reenter
    /\ UNCHANGED <<points, start, end, min_step, max_step>>

NextPair == Next \/ CallAgain

SpecPair == Init /\ [][NextPair]_vars

NextRerun == Next \/ CallSame

SpecRerun == Init /\ [][NextRerun]_vars

----------------------------------------------------------------------------
(* One search on a grid whose cells all cost 1, from the top-left to the   *)
(* bottom-right cell with min_step = max_step = 1. Every frontier entry of *)
(* such a search ties with many others. BinaryHeap releases entries of     *)
(* equal cost in an order fixed by its layout, that is by the order of the *)
(* pushes; here a run releases them by the place of their direction in the *)
(* order of enumeration, then by row, column and steps, and the runs cover *)
(* the orders of enumeration of DirectionOrders.                           *)

Place(d) == CHOOSE i \in 1..Len(order) : order[i] = d

Before(s, t) ==
    LET a == <<Place(s.direction), s.coords[2], s.coords[1], s.steps>>
        b == <<Place(t.direction), t.coords[2], t.coords[1], t.steps>>
    IN  \E i \in 1..Len(a) :
            /\ a[i] < b[i]
            /\ \A j \in 1..(i - 1) : a[j] = b[j]

(* s is the entry that the heap releases.                                  *)
Released(s) ==
    /\ Top(s)
    /\ \A t \in BagToSet(heap) : (Top(t) /\ t # s) => Before(s, t)

PopReturnReleased == PopReturn /\ Released(state')

PopVisitReleased == PopVisit /\ Released(state')

UnitGrid(w, h) == [y \in 1..h |-> [x \in 1..w |-> 1]]

InitZigzag ==
    /\ \E w \in 1..5, h \in 1..5 : points = UnitGrid(w, h)
    /\ start = <<0, 0>>
    /\ end = <<Width - 1, Height - 1>>
    /\ min_step = 1
    /\ max_step = 1
    /\ order \in DirectionOrders
    /\ prev = NoCall
    /\ Entry

NextZigzag ==
    Initialize \/ PopReturnReleased \/ PopVisitReleased \/ Exhausted

SpecZigzag == InitZigzag /\ [][NextZigzag]_vars

----------------------------------------------------------------------------
(* The example of the puzzle, data/day17/ex1 of the repository, searched   *)
(* as `first` and `second` search it: from the top-left to the             *)
(* bottom-right cell.                                                      *)

Ex1 ==
    << <<2, 4, 1, 3, 4, 3, 2, 3, 1, 1, 3, 2, 3>>,
       <<3, 2, 1, 5, 4, 5, 3, 5, 3, 5, 6, 2, 3>>,
       <<3, 2, 5, 5, 2, 4, 5, 6, 5, 4, 2, 5, 4>>,
       <<3, 4, 4, 6, 5, 8, 5, 8, 4, 5, 4, 5, 2>>,
       <<4, 5, 4, 6, 6, 5, 7, 8, 6, 7, 5, 3, 6>>,
       <<1, 4, 3, 8, 5, 9, 8, 7, 9, 8, 4, 5, 4>>,
       <<4, 4, 5, 7, 8, 7, 6, 9, 8, 7, 7, 6, 6>>,
       <<3, 6, 3, 7, 8, 7, 7, 9, 7, 9, 6, 5, 3>>,
       <<4, 6, 5, 4, 9, 6, 7, 9, 8, 6, 8, 8, 7>>,
       <<4, 5, 6, 4, 6, 7, 9, 9, 8, 6, 4, 5, 3>>,
       <<1, 2, 2, 4, 6, 8, 6, 8, 6, 5, 5, 6, 3>>,
       <<2, 5, 4, 6, 5, 4, 8, 8, 8, 7, 7, 3, 5>>,
       <<4, 3, 2, 2, 6, 7, 4, 6, 5, 5, 5, 3, 3>> >>

(* The place of an entry among those of its cost: Before as one number.    *)
Rank(s) ==
    ((Place(s.direction) * Height + s.coords[2]) * Width + s.coords[1]) * U8Mod
        + s.steps

(* The least cost of the entries of a frontier.                            *)
Least(hp) ==
    LET costs == {s.cost : s \in BagToSet(hp)}
    IN  CHOOSE c \in costs : \A d \in costs : c <= d

(* The entry that heap.pop() releases from a frontier: the one for which   *)
(* Released holds, found from the least cost.                              *)
FirstOut(hp) ==
    LET least == Least(hp)
        ties == {s \in BagToSet(hp) : s.cost = least}
        ranks == {Rank(s) : s \in ties}
        first == CHOOSE r \in ranks : \A q \in ranks : r <= q
    IN  CHOOSE s \in ties : Rank(s) = first

(* One iteration of the while loop (lines 62-113) on the locals r of the   *)
(* call: the pop, the final test, the stale test and the for loop.         *)
Iteration(r) ==
    LET s == FirstOut(r.heap)
        popped == [distances |-> r.distances,
                   heap |-> r.heap (-) SetToBag({s}),
                   via |-> r.via]
        stale == Key(s) \in DOMAIN r.distances /\ r.distances[Key(s)] < s.cost
        acc == IF AtEnd(s) \/ stale THEN popped
               ELSE Visit(adjacent(s.coords, s.direction), 1, s, popped)
    IN  [distances |-> acc.distances, heap |-> acc.heap, via |-> acc.via,
         state |-> s,
         pc |-> IF AtEnd(s) THEN "done" ELSE "loop",
         result |-> IF AtEnd(s) THEN Some(s.cost) ELSE None]

(* The iterations that pop the entries of cost c.                          *)
RECURSIVE Level(_, _)
Level(r, c) ==
    IF r.pc # "loop" \/ r.heap = EmptyBag THEN r
    ELSE IF Least(r.heap) # c THEN r
    ELSE Level(Iteration(r), c)

(* The while loop, taken one cost at a time: all the entries of the least  *)
(* cost are popped in one step, and an empty frontier ends the call with   *)
(* None (line 115).                                                        *)
Sweep ==
    /\ pc = "loop"
    /\ LET now == [distances |-> distances, heap |-> heap, via |-> via,
                   state |-> state, pc |-> pc, result |-> result]
           r == IF heap = EmptyBag THEN [now EXCEPT !.pc = "done"]
                ELSE Level(now, Least(heap))
       IN  /\ distances' = r.distances
           /\ heap' = r.heap
           /\ via' = r.via
           /\ state' = r.state
           /\ pc' = r.pc
           /\ result' = r.result
    /\ UNCHANGED <<points, start, end, min_step, max_step, order, prev>>

(* The two calls of `run` on the example: 1 and 3 (first), 4 and 10        *)
(* (second).                                                               *)
InitGolden ==
    /\ points = Ex1
    /\ start = <<0, 0>>
    /\ end = <<Width - 1, Height - 1>>
    /\ \E p \in {<<1, 3>>, <<4, 10>>} : min_step = p[1] /\ max_step = p[2]
    /\ order = AllDirections
    /\ prev = NoCall
    /\ Entry

NextGolden == Initialize \/ Sweep

SpecGolden == InitGolden /\ [][NextGolden]_vars

----------------------------------------------------------------------------
(* Two calls of shortest_path on one Grid, each on its own thread. The     *)
(* variables above hold the arguments and locals of the call that takes    *)
(* the next step; prev holds those of the other call. Switch hands the     *)
(* processor to the other call, at any point of either.                    *)

Locals ==
    [start |-> start, end |-> end, min_step |-> min_step,
     max_step |-> max_step, distances |-> distances, heap |-> heap,
     state |-> state, via |-> via, pc |-> pc, result |-> result]

(* A switch after which the call that resumes finds the map of the call    *)
(* that was running: one map for both.                                     *)
SwitchSharedMap ==
    /\ prev' = Locals
    /\ start' = prev.start
    /\ end' = prev.end
    /\ min_step' = prev.min_step
    /\ max_step' = prev.max_step
    /\ distances' = distances
    /\ heap' = prev.heap
    /\ state' = prev.state
    /\ via' = prev.via
    /\ pc' = prev.pc
    /\ result' = prev.result
    /\ UNCHANGED <<points, order>>

Switch ==
    /\ prev' = Locals
    /\ start' = prev.start
    /\ end' = prev.end
    /\ min_step' = prev.min_step
    /\ max_step' = prev.max_step
    /\ distances' = prev.distances
    /\ heap' = prev.heap
    /\ state' = prev.state
    /\ via' = prev.via
    /\ pc' = prev.pc
    /\ result' = prev.result
    /\ UNCHANGED <<points, order>>

(* A grid of two rows; one call goes from the top-left to the bottom-right *)
(* cell with runs of 1 to MaxStep steps, the other from any cell to the    *)
(* bottom-right cell with any min_step and max_step.                       *)
InitBoth ==
    /\ \E g \in 0..(NumGrids - 1), w \in 1..MaxCells :
        /\ w * 2 <= MaxCells
        /\ points = InputGrid(g, w, 2)
    /\ start = <<0, 0>>
    /\ end = <<Width - 1, Height - 1>>
    /\ min_step = 1
    /\ max_step = MaxStep
    /\ order = AllDirections
    /\ Entry
    /\ \E s \in Positions, p \in StepPairs :
        prev = [start |-> s, end |-> end, min_step |-> p[1], max_step |-> p[2],
                distances |-> <<>>, heap |-> EmptyBag, state |-> NoState,
                via |-> <<>>, pc |-> "call", result |-> None]

NextBoth == Next \/ Switch

SpecBoth == InitBoth /\ [][NextBoth]_vars

----------------------------------------------------------------------------
(* A search along one row that is longer than a u8 can count, with the     *)
(* greatest max_step a u8 holds. At line 91 `steps + 1` is a u8 sum: when  *)
(* steps is U8Mod - 1 a build with overflow checks panics there, and a     *)
(* build without them wraps to 0, which NextState computes. Both outcomes  *)
(* are steps of this specification.                                        *)

Overflows(s) ==
    \E i \in 1..Len(adjacent(s.coords, s.direction)) :
        /\ adjacent(s.coords, s.direction)[i][1] = s.direction
        /\ s.steps + 1 >= U8Mod

(* Lines 62-91, overflow checks on: the call panics while it builds the    *)
(* next State and returns nothing.                                         *)
PopPanic ==
    /\ pc = "loop"
    /\ \E s \in BagToSet(heap) :
        /\ Top(s)
        /\ ~AtEnd(s)
        /\ ~Stale(s)
        /\ Overflows(s)
        /\ state' = s
        /\ heap' = heap (-) SetToBag({s})
        /\ pc' = "panic"
    /\ UNCHANGED <<points, start, end, min_step, max_step, order, distances,
                   via, result, prev>>

InitCorridor ==
    /\ \E w \in {U8Mod + 1, U8Mod + 2} : points = UnitGrid(w, 1)
    /\ start = <<0, 0>>
    /\ end = <<Width - 1, 0>>
    /\ min_step = 1
    /\ max_step = U8Mod - 1
    /\ order = AllDirections
    /\ prev = NoCall
    /\ Entry

NextCorridor == Next \/ PopPanic

SpecCorridor == InitCorridor /\ [][NextCorridor]_vars

----------------------------------------------------------------------------
(* Searches on the grid of three columns and four rows whose cells all     *)
(* hold the greatest digit, from the top-left cell to any end, with runs   *)
(* of two or three steps. Ties are released as in SpecZigzag.              *)

NinesGrid(w, h) == [y \in 1..h |-> [x \in 1..w |-> DigitBase - 1]]

InitNines ==
    /\ points = NinesGrid(3, 4)
    /\ start = <<0, 0>>
    /\ end \in Positions
    /\ min_step = 2
    /\ max_step = 3
    /\ order \in DirectionOrders
    /\ prev = NoCall
    /\ Entry

SpecNines == InitNines /\ [][NextZigzag]_vars

-----------------------------------------------------------------------------
(* Grid::parse, and searches on the grids it builds. The input is a text   *)
(* of characters, each one its code; parse accepts one or more lines, each *)
(* of one or more digits and a line ending, and nothing else. A lookup     *)
(* points[y][x] past the end of a row panics.                              *)

MaxText == 6

LineFeed == 10
CarriageReturn == 13
Zero == 48

Chars == {Zero + 1, Zero + 2, CarriageReturn, LineFeed}

ParseError == <<>>

(* c.is_numeric(), for the characters of Chars.                            *)
IsNumeric(c) == c \in Zero..(Zero + DigitBase - 1)

(* input from its i-th character on; row holds the digits of the line      *)
(* being read and rows the lines read so far.                              *)
RECURSIVE ParseFrom(_, _, _, _)
ParseFrom(input, i, row, rows) ==
    IF i > Len(input)
    THEN IF row = <<>> /\ rows # <<>> THEN rows ELSE ParseError
    ELSE IF IsNumeric(input[i])
    THEN ParseFrom(input, i + 1, Append(row, input[i] - Zero), rows)
    ELSE IF row # <<>> /\ input[i] = LineFeed
    THEN ParseFrom(input, i + 1, <<>>, Append(rows, row))
    ELSE IF /\ row # <<>>
            /\ input[i] = CarriageReturn
            /\ i < Len(input)
            /\ input[i + 1] = LineFeed
    THEN ParseFrom(input, i + 2, <<>>, Append(rows, row))
    ELSE ParseError

parse(input) == ParseFrom(input, 1, <<>>, <<>>)

(* Some cell that the for loop reads for s is past the end of its row.     *)
ReadsOutside(s) ==
    \E i \in 1..Len(adjacent(s.coords, s.direction)) :
        LET c == adjacent(s.coords, s.direction)[i][2]
        IN  c[1] + 1 > Len(points[c[2] + 1])

(* Lines 62-87: the index of line 86 is out of bounds and the call panics. *)
PopIndexPanic ==
    /\ pc = "loop"
    /\ \E s \in BagToSet(heap) :
        /\ Top(s)
        /\ ~AtEnd(s)
        /\ ~Stale(s)
        /\ ReadsOutside(s)
        /\ state' = s
        /\ heap' = heap (-) SetToBag({s})
        /\ pc' = "panic"
    /\ UNCHANGED <<points, start, end, min_step, max_step, order, distances,
                   via, result, prev>>

(* PopVisit where every lookup of the for loop is inside its row.          *)
PopVisitInside ==
    /\ pc = "loop"
    /\ \E s \in BagToSet(heap) :
        /\ Top(s)
        /\ ~AtEnd(s)
        /\ Stale(s) \/ ~ReadsOutside(s)
        /\ LET popped == [distances |-> distances,
                          heap |-> heap (-) SetToBag({s}),
                          via |-> via]
               acc == IF Stale(s) THEN popped
                      ELSE Visit(adjacent(s.coords, s.direction), 1, s, popped)
           IN  /\ state' = s
               /\ distances' = acc.distances
               /\ heap' = acc.heap
               /\ via' = acc.via
    /\ UNCHANGED <<points, start, end, min_step, max_step, order, pc, result,
                   prev>>

InitParsed ==
    /\ \E n \in 1..MaxText : \E input \in [1..n -> Chars] :
        /\ parse(input) # ParseError
        /\ points = parse(input)
    /\ start \in Positions
    /\ end \in Positions
    /\ \E p \in StepPairs : min_step = p[1] /\ max_step = p[2]
    /\ order = AllDirections
    /\ prev = NoCall
    /\ Entry

NextParsed ==
    \/ Initialize
    \/ PopReturn
    \/ PopVisitInside
    \/ PopIndexPanic
    \/ Exhausted

SpecParsed == InitParsed /\ [][NextParsed]_vars

-----------------------------------------------------------------------------
(* Searches that end where they start, on the grids of two columns and up  *)
(* to MaxCells cells whose cells cost 0 or 1. Ties are released as in      *)
(* SpecZigzag.                                                             *)

InitRound ==
    /\ \E h \in 1..MaxCells :
        /\ 2 * h <= MaxCells
        /\ points \in [1..h -> [1..2 -> {0, 1}]]
    /\ start \in Positions
    /\ end = start
    /\ \E p \in StepPairs : min_step = p[1] /\ max_step = p[2]
    /\ order = AllDirections
    /\ prev = NoCall
    /\ Entry

SpecRound == InitRound /\ [][NextZigzag]_vars

----------------------------------------------------------------------------
(* The expanded state graph, stated on its own: its nodes are the keys     *)
(* (coords, direction, steps), its initial nodes the keys of the two       *)
(* seeds, and k follows p when one move leads from p to k within the run   *)
(* length rules.                                                           *)

Min(S) == CHOOSE m \in S : \A n \in S : m <= n

Nodes == [coords : Positions, direction : Directions, steps : 0..max_step]

SeedKeys == {[coords |-> start, direction |-> SeedDirections[i], steps |-> 0] :
                i \in 1..Len(SeedDirections)}

Edge(p, k) ==
    /\ k.coords = next(k.direction, p.coords)
    /\ k.direction # opposite(p.direction)
    /\ \/ k.direction = p.direction /\ k.steps = p.steps + 1
       \/ k.direction # p.direction /\ k.steps = 1 /\ p.steps >= min_step

Final(k) == k.coords = end /\ k.steps >= min_step

(* The nodes some path from the nodes of S reaches.                        *)
RECURSIVE Closure(_)
Closure(S) ==
    LET T == S \cup {k \in Nodes : \E p \in S : Edge(p, k)}
    IN  IF T = S THEN S ELSE Closure(T)

Reachable == Closure(SeedKeys)

(* The least cost of a path to each node, by exhaustive relaxation: D maps *)
(* the nodes reached by paths of at most n moves to the least cost of such *)
(* a path, and Relax(D) does so for n + 1.                                 *)
Relax(D) ==
    LET R == DOMAIN D \cup {k \in Nodes : \E p \in DOMAIN D : Edge(p, k)}
    IN  [k \in R |->
            Min((IF k \in DOMAIN D THEN {D[k]} ELSE {})
                \cup {D[p] + Cell(k.coords) : p \in {q \in DOMAIN D : Edge(q, k)}})]

RECURSIVE Settle(_)
Settle(D) == LET E == Relax(D) IN IF E = D THEN D ELSE Settle(E)

LeastCosts == Settle([k \in SeedKeys |-> 0])

(* The least cost of a path from a seed to a final node, if there is one.  *)
BestCost ==
    LET D == LeastCosts
        F == {k \in DOMAIN D : Final(k)}
    IN  IF F = {} THEN None ELSE Some(Min({D[k] : k \in F}))

----------------------------------------------------------------------------
----------------------------------------------------------------------------
(* The path of a pushed State, read from the history.                      *)

(* The cells a State's path stands on, the start first.                    *)
Walk(s) == <<start>> \o via[s].path

(* The directions of the moves of a State's path.                          *)
Taken(s) ==
    LET w == Walk(s)
    IN  [i \in 1..Len(via[s].path) |->
            CHOOSE d \in Directions : next(d, w[i]) = w[i + 1]]

(* The length of the last run of moves in one direction.                   *)
FinalRun(s) ==
    LET m == Taken(s)
        n == Len(m)
    IN  Cardinality({i \in 1..n : \A j \in i..n : m[j] = m[n]})

RECURSIVE SumCells(_)
SumCells(path) ==
    IF path = <<>> THEN 0 ELSE Cell(Head(path)) + SumCells(Tail(path))

(* The graph above with a seed for each of the four directions: the first  *)
(* move is free.                                                           *)
FreeSeedKeys == {[coords |-> start, direction |-> d, steps |-> 0] :
                    d \in Directions}

ReachableFree == Closure(FreeSeedKeys)

----------------------------------------------------------------------------
(* C3. The first move of a search is free: it may go Up, Down, Left or     *)
(* Right from start, so a search whose end can be reached by some first    *)
(* move followed by legal moves does not return None.                      *)
C3_FirstMoveFree ==
    (pc = "done" /\ \E k \in ReachableFree : Final(k)) => result # None

(* C4. When shortest_path returns Some(cost), the state it returns from is *)
(* at end with steps >= min_step, and the last run of the path that has    *)
(* this cost is at least min_step moves long.                              *)
C4_FinalRun ==
    (pc = "done" /\ result # None) =>
        /\ state.coords = end
        /\ state.steps >= min_step
        /\ result = Some(state.cost)
        /\ Walk(state)[Len(Walk(state))] = end
        /\ FinalRun(state) = state.steps
        /\ FinalRun(state) >= min_step

(* C4 witness: a search returned a cost although a State at end with too   *)
(* short a run had been pushed before, and the returned path has turned.   *)
C4_Witness ==
    /\ pc = "done"
    /\ result # None
    /\ \E s \in DOMAIN via : s.coords = end /\ s.steps < min_step
    /\ Len(via[state].path) > FinalRun(state)

(* C5. No State pushed onto the frontier was reached by a move opposite to *)
(* the direction of the State it was expanded from, and no path of a       *)
(* pushed State holds two consecutive opposite moves.                      *)
C5_NoReversal ==
    \A s \in DOMAIN via :
        /\ via[s].from # NoState => s.direction # opposite(via[s].from.direction)
        /\ \A i \in 1..(Len(via[s].path) - 1) :
              Taken(s)[i + 1] # opposite(Taken(s)[i])

(* C5 witness: a State was expanded whose opposite cell is in the grid,    *)
(* after a run long enough to turn, and its path has two turns.            *)
C5_Witness ==
    /\ pc = "loop"
    /\ state # NoState
    /\ state.steps >= min_step
    /\ contains(next(opposite(state.direction), state.coords))
    /\ \E s \in DOMAIN via : via[s].from = state /\ Len(via[s].path) > 2

C10_StartNeverCharged ==
    \A s \in DOMAIN via :
        LET Elsewhere(c) == c # start
        IN  s.cost = SumCells(SelectSeq(via[s].path, Elsewhere))

(* C10, amended. Costs are charged on entering a cell: the cost of every   *)
(* State in the map or the frontier is the sum of the values of the cells  *)
(* entered by the moves of its path, the seeds cost 0 and have entered     *)
(* nothing, and the value of the start cell is charged only for the moves  *)
(* that enter it again.                                                    *)
C10_EntryCosts ==
    /\ \A s \in DOMAIN via :
        /\ s.cost = SumCells(via[s].path)
        /\ Walk(s)[Len(Walk(s))] = s.coords
        /\ s.steps = 0 => s.cost = 0 /\ via[s].path = <<>>
    /\ \A s \in BagToSet(heap) : s \in DOMAIN via
    /\ \A k \in DOMAIN distances :
        \E s \in DOMAIN via : Key(s) = k /\ s.cost = distances[k]
    /\ (pc = "done" /\ result # None) => result = Some(SumCells(via[state].path))

(* C10 witness: a search from a start cell of value > 0 returned the cost  *)
(* of a path of at least two moves that came back to start.                *)
C10_Witness ==
    /\ pc = "done"
    /\ result # None
    /\ Cell(start) > 0
    /\ Len(via[state].path) >= 2
    /\ \E i \in 1..Len(via[state].path) : via[state].path[i] = start

----------------------------------------------------------------------------
(* Results as costs, None being the greatest.                              *)
AtMost(a, b) == b = None \/ (a # None /\ a[1] <= b[1])

(* C6. For the same grid, start, end and min_step, a call with a max_step  *)
(* at least as great returns a result that is not greater; a Some never    *)
(* becomes None.                                                           *)
C6_MaxStepMonotone ==
    (/\ pc = "done"
     /\ prev # NoCall
     /\ prev.min_step = min_step
     /\ prev.max_step <= max_step) => AtMost(result, prev.result)

(* C6 witness: the call with the greater max_step returned a cost, and the *)
(* call with the smaller one a greater cost or None.                       *)
C6_Witness ==
    /\ pc = "done"
    /\ prev # NoCall
    /\ prev.min_step = min_step
    /\ prev.max_step < max_step
    /\ result # None
    /\ result # prev.result

(* C7. For the same grid, start, end and max_step, a call with a min_step  *)
(* at least as great (and <= max_step) returns a result that is not        *)
(* smaller.                                                                *)
C7_MinStepMonotone ==
    (/\ pc = "done"
     /\ prev # NoCall
     /\ prev.max_step = max_step
     /\ prev.min_step <= min_step) => AtMost(prev.result, result)

(* C7 witness: the call with the smaller min_step returned a cost, and the *)
(* call with the greater one a greater cost or None.                       *)
C7_Witness ==
    /\ pc = "done"
    /\ prev # NoCall
    /\ prev.max_step = max_step
    /\ prev.min_step < min_step
    /\ prev.result # None
    /\ result # prev.result

(* C9. Determinism: two calls with the same grid, start, end, min_step and *)
(* max_step return the same value, whichever entry of least cost each pop  *)
(* takes and in whichever order the directions are enumerated.             *)
C9_Deterministic ==
    (/\ pc = "done"
     /\ prev # NoCall
     /\ prev.start = start
     /\ prev.end = end
     /\ prev.min_step = min_step
     /\ prev.max_step = max_step) => result = prev.result

(* C9 witness: the second call enumerated the directions in another order, *)
(* popped an entry while another of the same cost was in the frontier, and *)
(* returned a cost.                                                        *)
C9_Witness ==
    /\ pc = "done"
    /\ prev # NoCall
    /\ order # prev.order
    /\ result # None
    /\ \E s \in BagToSet(heap) : s.cost = state.cost

----------------------------------------------------------------------------
(* C11. Termination: every search eventually returns, with Some(cost) or   *)
(* with None once the frontier is empty; the loop does not run for ever.   *)
C11_Terminates == <>(pc = "done")

(* C11 witness: a search that pushed more than four states has returned    *)
(* None after emptying the frontier.                                       *)
C11_Witness ==
    /\ pc = "done"
    /\ result = None
    /\ heap = EmptyBag
    /\ Cardinality(DOMAIN via) > 4

(* C12. On the 5x5 grid whose cells all cost 1, the search from (0,0) to   *)
(* (4,4) with min_step = 1 and max_step = 1 returns Some(8).               *)
C12_Zigzag ==
    (pc = "done" /\ Width = 5 /\ Height = 5) => result = Some(8)

(* C12 witness: that search has returned Some(8) by a path of eight moves  *)
(* that ends at (4,4) and never takes two moves in a row in one direction. *)
C12_Witness ==
    /\ pc = "done"
    /\ Width = 5
    /\ Height = 5
    /\ start = <<0, 0>>
    /\ end = <<4, 4>>
    /\ result = Some(8)
    /\ Len(via[state].path) = 8
    /\ \A i \in 1..7 : Taken(state)[i] # Taken(state)[i + 1]

(* C13. On the 13x13 example grid the search from (0,0) to (12,12) with   *)
(* min_step = 4 and max_step = 10 returns Some(94). (The same grid with    *)
(* min_step = 1 and max_step = 3 returns Some(102), the value noted at     *)
(* line 273.)                                                              *)
C13_Golden ==
    /\ (pc = "done" /\ min_step = 4 /\ max_step = 10) => result = Some(94)
    /\ (pc = "done" /\ min_step = 1 /\ max_step = 3) => result = Some(102)

(* C13 witness: the search with 4 and 10 has returned Some(94) for a State *)
(* at (12,12) with at least four steps, whose path enters cells that sum   *)
(* to 94.                                                                  *)
C13_Witness ==
    /\ pc = "done"
    /\ Width = 13
    /\ Height = 13
    /\ min_step = 4
    /\ max_step = 10
    /\ result = Some(94)
    /\ state.coords = <<12, 12>>
    /\ state.steps >= 4
    /\ SumCells(via[state].path) = 94

(* C14. Two searches on one Grid whose steps are interleaved in any way do *)
(* not interfere: each returns the value of shortest_path for its own      *)
(* arguments. The call that has returned is checked when it holds the      *)
(* processor, which Switch may give it at any time.                        *)
C14_NoInterference == pc = "done" => result = BestCost

(* C14 witness: a search has returned Some(cost) while the other search,   *)
(* with another start and other step limits, is in the middle of its loop  *)
(* with entries pushed beyond its seeds.                                   *)
C14_Witness ==
    /\ pc = "done"
    /\ result # None
    /\ Cardinality(DOMAIN distances) > 2
    /\ prev.pc = "loop"
    /\ Cardinality(DOMAIN prev.distances) > 2
    /\ prev.heap # EmptyBag
    /\ prev.start # start
    /\ prev.min_step # min_step

(* C15. shortest_path leaves the Grid as it was: no step of a search       *)
(* changes a cell. Nothing of the map or of the frontier survives into the *)
(* next call: a call starts with both empty, and after its initialisation  *)
(* they hold the two seeds and nothing else.                               *)
C15_GridUnchanged ==
    [][/\ points' = points
       /\ pc' = "call" => (distances' = <<>> /\ heap' = EmptyBag)
       /\ (pc = "call" /\ pc' = "loop") =>
            /\ DOMAIN distances' = {Key(s) : s \in Seeds}
            /\ heap' = SetToBag(Seeds)]_vars

(* C15 witness: a second call on the Grid has returned after pushing       *)
(* entries beyond its seeds, the first call having done so too.            *)
C15_Witness ==
    /\ prev # NoCall
    /\ prev.result # None
    /\ pc = "done"
    /\ result # None
    /\ Cardinality(DOMAIN distances) > 2

(* C16. Streak invariant: every entry of the map and of the frontier other *)
(* than the two seeds has steps in 1..max_step, the seeds are the only     *)
(* entries with steps = 0, and a State that continues in the direction of  *)
(* the State it was expanded from does so only if the run it then has is   *)
(* at most max_step long.                                                  *)
C16_StreakInvariant ==
    /\ \A k \in DOMAIN distances \cup {Key(s) : s \in BagToSet(heap)} :
            IF k \in SeedKeys THEN k.steps = 0
            ELSE k.steps \in 1..max_step
    /\ \A s \in DOMAIN via :
            (via[s].from # NoState /\ s.direction = via[s].from.direction)
                => via[s].from.steps + 1 <= max_step

(* C17. Turn rule: a pushed State whose direction differs from that of the *)
(* State it was expanded from has steps = 1, and that State had steps >=   *)
(* min_step; every State pushed from a State with steps < min_step keeps   *)
(* its direction and has one step more.                                    *)
C17_TurnRule ==
    \A s \in DOMAIN via :
        via[s].from # NoState =>
            LET p == via[s].from
            IN  /\ s.direction # p.direction
                    => (p.steps >= min_step /\ s.steps = 1)
                /\ p.steps < min_step
                    => (s.direction = p.direction /\ s.steps = p.steps + 1)

(* C17 witness: with min_step = 2, a State has turned after a run of two   *)
(* steps, and a State with one step has been continued straight.           *)
C17_Witness ==
    /\ min_step = 2
    /\ \E s \in DOMAIN via :
        /\ via[s].from # NoState
        /\ s.direction # via[s].from.direction
        /\ via[s].from.steps = 2
    /\ \E s \in DOMAIN via :
        /\ via[s].from # NoState
        /\ via[s].from.steps = 1
        /\ s.direction = via[s].from.direction

(* C18. Seeds never turn: the only State pushed from a seed (steps = 0) is  *)
(* the one a step further in the seed's own direction, with steps = 1; so  *)
(* the first move of every path goes Down or Right.                        *)
C18_SeedsGoStraight ==
    /\ \A s \in DOMAIN via :
            via[s].from \in Seeds =>
                /\ via[s].from.steps = 0
                /\ s.direction = via[s].from.direction
                /\ s.steps = 1
                /\ s.coords = next(via[s].from.direction, start)
    /\ \A s \in DOMAIN via :
            via[s].path # <<>> =>
                \E i \in 1..Len(SeedDirections) :
                    Taken(s)[1] = SeedDirections[i]

(* C18 witness: the Down seed of a start that has a cell on its left and   *)
(* one on its right pushed its successor, and the search returned.         *)
C18_Witness ==
    /\ pc = "done"
    /\ min_step >= 1
    /\ contains(next("Left", start))
    /\ contains(next("Right", start))
    /\ \E s \in DOMAIN via : via[s].from = Seed("Down")

(* C19. Arriving at end too early does not stop the search: a step that    *)
(* pops a State at end with steps < min_step does not return; it stays in  *)
(* the loop with no result, and pushes every successor of that State that  *)
(* the tests of the for loop accept, as for any other State.               *)
C19_EarlyArrival ==
    [][(/\ pc = "loop"
        /\ heap' # heap
        /\ state'.coords = end
        /\ state'.steps < min_step) =>
            /\ pc' = "loop"
            /\ result' = None
            /\ ~BagIn(state', heap')
            /\ LET adj == adjacent(state'.coords, state'.direction)
               IN  \A i \in 1..Len(adj) :
                       LET n == NextState(state', adj[i])
                       IN  ~Rejected(distances, state', n) =>
                               /\ BagIn(n, heap')
                               /\ Key(n) \in DOMAIN distances'
                               /\ distances'[Key(n)] = n.cost]_vars

(* C19 witness: a search returned Some(cost) after it had popped a State   *)
(* at end with steps < min_step and pushed a successor of it.              *)
C19_Witness ==
    /\ pc = "done"
    /\ result # None
    /\ state.steps >= min_step
    /\ \E e \in DOMAIN via :
        /\ e.coords = end
        /\ e.steps < min_step
        /\ \E s \in DOMAIN via : via[s].from = e

(* C20. Stale entries are discarded: no State that was expanded, and no    *)
(* State that was returned from, has a cost above the one the map records  *)
(* for its key; when shortest_path returns Some(cost), cost is the map's   *)
(* entry for the State it returns from.                                    *)
C20_StaleDiscarded ==
    /\ \A s \in DOMAIN via :
            via[s].from # NoState =>
                /\ Key(via[s].from) \in DOMAIN distances
                /\ distances[Key(via[s].from)] >= via[s].from.cost
    /\ (pc = "done" /\ result # None) =>
            /\ Key(state) \in DOMAIN distances
            /\ result = Some(distances[Key(state)])

(* C20 witness: a search returned the map's entry for a State that three   *)
(* or more moves reach, every State on the way having been expanded.       *)
C20_Witness ==
    /\ pc = "done"
    /\ result # None
    /\ result = Some(distances[Key(state)])
    /\ Len(via[state].path) >= 3
    /\ Cardinality(DOMAIN distances) > 6

(* C21. Uniform-cost loop invariant: every pop takes an entry of the least *)
(* cost of the frontier; after the step, every entry of the frontier, the  *)
(* ones just pushed included, costs at least as much as the popped one;    *)
(* and the popped costs never decrease from one pop to the next.           *)
C21_UniformCost ==
    [][(pc = "loop" /\ heap' # heap) =>
            /\ BagIn(state', heap)
            /\ \A t \in BagToSet(heap) : state'.cost <= t.cost
            /\ \A t \in BagToSet(heap') : state'.cost <= t.cost
            /\ state # NoState => state.cost <= state'.cost]_vars

(* C21 witness: after pops of a positive cost, the frontier holds an entry *)
(* of the cost just popped and an entry of a greater cost.                 *)
C21_Witness ==
    /\ pc = "loop"
    /\ state # NoState
    /\ state.cost > 0
    /\ \E t \in BagToSet(heap) : t.cost = state.cost
    /\ \E t \in BagToSet(heap) : t.cost > state.cost

(* C22. Entries of the map only improve: within a call no step removes an  *)
(* entry of the map or raises its cost, so an entry that changes is        *)
(* replaced by a strictly smaller cost.                                    *)
C22_OnlyImprove ==
    [][pc = "loop" =>
            \A k \in DOMAIN distances :
                /\ k \in DOMAIN distances'
                /\ distances'[k] <= distances[k]]_vars

(* C22 witness: a search has returned with more than six entries in its    *)
(* map, one of them for a key that two different States lead to.           *)
C22_Witness ==
    /\ pc = "done"
    /\ Cardinality(DOMAIN distances) > 6
    /\ \E k \in DOMAIN distances :
            Cardinality({p \in Reachable : Edge(p, k)}) > 1

(* C23. Pruning rule: when a State is expanded, each successor that is in  *)
(* bounds, is no reversal and keeps the run rules is pushed and written to *)
(* the map if and only if the map has no entry for its key or a strictly   *)
(* greater one; otherwise its map entry and its copies in the frontier     *)
(* stay as they were.                                                      *)
C23_Pruning ==
    [][(pc = "loop" /\ heap' # heap /\ pc' = "loop" /\ ~Stale(state')) =>
            LET adj == adjacent(state'.coords, state'.direction)
            IN  \A i \in 1..Len(adj) :
                    LET n == NextState(state', adj[i])
                        legal == /\ n.steps <= max_step
                                 /\ \/ n.direction = state'.direction
                                    \/ state'.steps >= min_step
                        better == \/ Key(n) \notin DOMAIN distances
                                  \/ distances[Key(n)] > n.cost
                    IN  legal =>
                            IF better
                            THEN /\ CopiesIn(n, heap') = CopiesIn(n, heap) + 1
                                 /\ Key(n) \in DOMAIN distances'
                                 /\ distances'[Key(n)] = n.cost
                            ELSE /\ CopiesIn(n, heap') = CopiesIn(n, heap)
                                 /\ distances'[Key(n)] = distances[Key(n)]]_vars

(* C23 witness: a State was expanded and a legal successor of it was       *)
(* pruned: the map holds for that key the cost of a State pushed from      *)
(* another parent, not above the successor's.                              *)
C23_Witness ==
    \E p \in DOMAIN via :
        /\ ~BagIn(p, heap)
        /\ ~AtEnd(p)
        /\ p # state
        /\ \E i \in 1..Len(adjacent(p.coords, p.direction)) :
            LET n == NextState(p, adjacent(p.coords, p.direction)[i])
            IN  /\ n.steps <= max_step
                /\ (n.direction = p.direction \/ p.steps >= min_step)
                /\ Key(n) \in DOMAIN distances
                /\ distances[Key(n)] <= n.cost
                /\ \A s \in DOMAIN via : Key(s) = Key(n) => via[s].from # p

(* C24. Accumulated-cost bound: every cost held in the frontier or in the  *)
(* map is at most the number of cells of the grid times the greatest cost  *)
(* of a cell, 9.                                                           *)
C24_CellBound ==
    /\ \A s \in BagToSet(heap) : s.cost <= Width * Height * (DigitBase - 1)
    /\ \A k \in DOMAIN distances :
            distances[k] <= Width * Height * (DigitBase - 1)

(* C24 (amended). Every accumulated cost is at most 9 for each move of its *)
(* path, and a path has fewer moves than there are keys: cells x 4         *)
(* directions x (max_step + 1) values of steps. So every cost held in the  *)
(* frontier or in the map is at most 9 x (that number of keys - 1).        *)
C24_KeyBound ==
    /\ \A s \in DOMAIN via :
            /\ s.cost <= (DigitBase - 1) * Len(via[s].path)
            /\ Len(via[s].path) < Cardinality(Nodes)
    /\ \A s \in BagToSet(heap) :
            s.cost <= (DigitBase - 1) * (Cardinality(Nodes) - 1)
    /\ \A k \in DOMAIN distances :
            distances[k] <= (DigitBase - 1) * (Cardinality(Nodes) - 1)

(* C24 witness: a search has ended with an entry in its map whose cost is  *)
(* above 9 times the number of cells, for a path with more moves than the  *)
(* grid has cells.                                                         *)
C24_Witness ==
    /\ pc = "done"
    /\ \E s \in DOMAIN via :
        /\ Len(via[s].path) > Width * Height
        /\ distances[Key(s)] = s.cost
        /\ s.cost > Width * Height * (DigitBase - 1)

(* C25. contains holds of (x, y) exactly when 0 <= x < width and           *)
(* 0 <= y < height, and every cell that shortest_path reads, one for each  *)
(* element of adjacent of a state it holds, is at a position where         *)
(* contains holds: an existing column of an existing row.                  *)
C25_ReadsInside ==
    /\ \A x \in (-1)..Width, y \in (-1)..Height :
            contains(<<x, y>>) <=>
                (x \in 0..(Width - 1) /\ y \in 0..(Height - 1))
    /\ \A s \in DOMAIN via :
            \A i \in 1..Len(adjacent(s.coords, s.direction)) :
                LET c == adjacent(s.coords, s.direction)[i][2]
                IN  /\ contains(c)
                    /\ c[2] + 1 \in DOMAIN points
                    /\ c[1] + 1 \in DOMAIN points[c[2] + 1]

(* C25 witness: a state in the last column and the last row of a grid of   *)
(* several rows and columns has been expanded, and a cell was read for it. *)
C25_Witness ==
    /\ Width > 1
    /\ Height > 1
    /\ \E s \in DOMAIN via :
        /\ s.coords = <<Width - 1, Height - 1>>
        /\ Len(adjacent(s.coords, s.direction)) < 3
        /\ \E t \in DOMAIN via : via[t].from = s

(* C26. Every Grid that parse builds has at least one row and all its     *)
(* rows are as long as the first, so that every position for which         *)
(* contains holds is a cell of its row.                                    *)
C26_Rectangular ==
    /\ Len(points) > 0
    /\ Width > 0
    /\ \A y \in DOMAIN points : Len(points[y]) = Width
    /\ \A x \in 0..Width, y \in 0..Height :
            contains(<<x, y>>) => x + 1 \in DOMAIN points[y + 1]

(* C27. A key is expanded at most once in a search. When an entry is       *)
(* popped and an entry of the same key has left the frontier before it,    *)
(* the popped entry is stale and the pop changes neither the map nor the   *)
(* rest of the frontier; and no pop adds an entry to the frontier for a    *)
(* key of which an entry has already left it.                              *)
C27_ExpandedOnce ==
    [][(pc = "loop" /\ heap' # heap) =>
            /\ (\E t \in DOMAIN via :
                    /\ Key(t) = Key(state')
                    /\ ~BagIn(t, heap)) =>
                    /\ Stale(state')
                    /\ distances' = distances
                    /\ heap' = heap (-) SetToBag({state'})
            /\ \A t \in DOMAIN via :
                    ~BagIn(t, heap) =>
                        \A u \in BagToSet(heap') :
                            Key(u) = Key(t) =>
                                CopiesIn(u, heap') <= CopiesIn(u, heap)]_vars

(* C27 witness: on a grid with a cell of cost 0, an entry t for that cell  *)
(* left the frontier and was expanded, and an entry p that left it later,  *)
(* at a greater cost, has a successor of the key of t that keeps the run   *)
(* rules and was not pushed.                                               *)
C27_Witness ==
    \E t \in DOMAIN via, p \in DOMAIN via :
        /\ Cell(t.coords) = 0
        /\ ~BagIn(t, heap)
        /\ \E c \in DOMAIN via : via[c].from = t
        /\ ~BagIn(p, heap)
        /\ ~AtEnd(p)
        /\ p # state
        /\ p.cost > t.cost
        /\ \E i \in 1..Len(adjacent(p.coords, p.direction)) :
            LET n == NextState(p, adjacent(p.coords, p.direction)[i])
            IN  /\ Key(n) = Key(t)
                /\ n.steps <= max_step
                /\ n.direction = p.direction \/ p.steps >= min_step
                /\ n \notin DOMAIN via

(* C28. A search with start = end and min_step >= 1 does not return        *)
(* Some(0).                                                                *)
C28_NeverZero ==
    (pc = "done" /\ start = end /\ min_step >= 1) => result # Some(0)

(* C28 (amended). A search with start = end and min_step >= 1 returns the  *)
(* least cost of a path of the state graph from a seed to a node at start  *)
(* with steps >= min_step, or None when there is none. The path it found   *)
(* has at least one move, ends at start after a run of at least min_step   *)
(* moves, and costs the sum of the cells it entered, the start cell the    *)
(* last of them; the result is Some(0) when all those cells cost 0.        *)
C28_RoundTrip ==
    (pc = "done" /\ start = end /\ min_step >= 1) =>
        /\ result = BestCost
        /\ result # None =>
            LET path == via[state].path
            IN  /\ Len(path) > 0
                /\ path[Len(path)] = start
                /\ FinalRun(state) >= min_step
                /\ result = Some(SumCells(path))
                /\ SumCells(path) >= Cell(start)
                /\ result = Some(0) <=> \A i \in 1..Len(path) : Cell(path[i]) = 0

(* C28 witness: a search with start = end returned Some(0) for a path that *)
(* left the start cell and came back to it.                                *)
C28_Witness ==
    /\ pc = "done"
    /\ start = end
    /\ min_step >= 1
    /\ result = Some(0)
    /\ Len(via[state].path) >= 4
    /\ \E c \in Positions : Cell(c) > 0

(* C29. For every max_step of the u8 range, 255 included, the sum          *)
(* steps + 1 of a State that goes on in the direction of the State it was  *)
(* expanded from stays below 256: the call does not panic on it and it is  *)
(* not wrapped, so the State holds the true length of its run, which is at *)
(* most max_step.                                                          *)
C29_NoOverflow ==
    /\ pc # "panic"
    /\ \A s \in DOMAIN via :
            (via[s].from # NoState /\ s.direction = via[s].from.direction) =>
                /\ via[s].from.steps + 1 < U8Mod
                /\ s.steps = via[s].from.steps + 1
                /\ s.steps <= max_step

(* C30. Frontier/map consistency: every entry of the frontier has an       *)
(* entry in the map for its key, of a cost <= its own, and the cost of     *)
(* every entry of the map is the cost of a State that was pushed for that  *)
(* key.                                                                    *)
C30_Consistent ==
    /\ \A s \in BagToSet(heap) :
            /\ Key(s) \in DOMAIN distances
            /\ distances[Key(s)] <= s.cost
    /\ \A k \in DOMAIN distances :
            \E s \in DOMAIN via : Key(s) = k /\ s.cost = distances[k]

(* C30 witness: in the middle of a search the frontier holds several       *)
(* entries, not seeds, and the map also holds keys that have left it.      *)
C30_Witness ==
    /\ pc = "loop"
    /\ Cardinality(BagToSet(heap)) >= 3
    /\ \A s \in BagToSet(heap) : s.steps > 0
    /\ Cardinality(DOMAIN distances) > Cardinality(BagToSet(heap)) + 2

====
